---- MODULE Spec2Model ----
(***************************************************************************)
(* The publishing-rights and revenue engine of ComicPad: the ComicPadV1    *)
(* contract (projects, episodes, minting rules, go-live, minting, paid     *)
(* reads, earnings and withdrawals), the ComicNFT token contract it calls, *)
(* and the USDT token it settles payments with.                            *)
(*                                                                         *)
(* Every external call of a contract is one transaction: it runs to        *)
(* completion without interleaving, and a revert undoes all of its         *)
(* writes.  An action below is one transaction; `last` records which       *)
(* function ran last and how it ended ("ok" or the name of the error it    *)
(* reverted with).                                                         *)
(***************************************************************************)
EXTENDS Integers, Sequences, FiniteSets, TLC

\* ---------------------------------------------------------------- bounds
MaxProjects == 1
MaxEpisodes == 1
MaxReads == 1
MaxTime == 1
\* episodes of the two-episode engine (SpecIssuance)
MaxIssuanceEpisodes == 2
\* projects of the two-episode engine (SpecIssuance)
MaxIssuanceProjects == 2
\* comics held by the backend ComicService, and batchMintComic calls made
MaxComics == 1
MaxServiceCalls == 2

\* ------------------------------------------------------ program constants
BASIS_POINTS == 10000
MAX_PLATFORM_FEE == 2000
\* the fee initialize() is given by the deployment under test
PLATFORM_FEE == 500

\* ------------------------------------------------------------- identities
NoAddress == "0x0"
Users == {"alice", "bob"}
\* the users who start projects
Creators == {"alice"}
Owner == "owner"
Treasury == "treasury"
ComicPad == "comicPad"
Accounts == Users \cup {Owner, Treasury, ComicPad}

ProjectIds == 1..MaxProjects
EpisodeIds == 1..MaxEpisodes
\* block.timestamp, as far as a transaction can see it
Timestamps == 1..MaxTime

\* ------------------------------------------------- inputs of the callers
\* (title, description, genres) of createComicProject
ProjectArgs ==
  { <<"x", "x", <<"Action">>>>, <<"", "x", <<"Action">>>>,
    <<"x", "", <<"Action">>>>, <<"x", "x", <<>>>> }

\* (title, description, metadataUri, mintPrice, maxSupply) of createComicEpisode
EpisodeArgs ==
  { <<"x", "x", "ipfs", 100, 2>>, <<"", "x", "ipfs", 100, 2>>,
    <<"x", "", "ipfs", 100, 2>>, <<"x", "x", "", 100, 2>>,
    <<"x", "x", "ipfs", 100, 0>> }

Rules(mp, ms, crp, pfp, apm, rp, ppr) ==
  [mintPrice |-> mp, maxSupply |-> ms, creatorRewardPercentage |-> crp,
   platformFeePercentage |-> pfp, allowPublicMinting |-> apm,
   readPrice |-> rp, isPayPerRead |-> ppr]

\* the argument tuples setMintingRules is called with
RuleChoices ==
  { Rules(100, 2, 8000, 200, TRUE, 10, FALSE),   \* free reads, two copies
    Rules(100, 1, 8000, 200, TRUE, 10, TRUE),    \* one copy, paid reads
    Rules(100, 1, 10000, 0, FALSE, 0, TRUE),     \* no public mint, read price 0
    Rules(0, 2, 8000, 200, TRUE, 10, TRUE),      \* mint price not set
    Rules(100, 2, 12000, 200, TRUE, 0, FALSE),   \* percentages above 100%
    Rules(100, 0, 8000, 200, TRUE, 0, FALSE) }   \* no supply

FeeChoices == {2000, 2001}
WithdrawAmounts == {0, 80}
PlatformWithdrawAmounts == {2, 100}

\* USDT held by each account when the engine is deployed
InitialFunds == [a \in Accounts |->
                   IF a = "alice" THEN 210 ELSE IF a = "bob" THEN 110 ELSE 0]

VARIABLES
  paused,                 \* PausableUpgradeable._paused
  projectIdCounter,       \* _projectIdCounter
  episodeIdCounter,       \* _episodeIdCounter
  projects,               \* mapping(uint256 => ComicProject)
  episodes,               \* mapping(uint256 => ComicEpisode)
  mintingRules,           \* mapping(uint256 => MintingRules)
  creatorEarnings,        \* mapping(address => EarningsData)
  projectEarnings,        \* mapping(uint256 => EarningsData)
  episodeEarnings,        \* mapping(uint256 => EarningsData)
  readAccess,             \* mapping(uint256 => mapping(address => bool))
  episodeReads,           \* mapping(uint256 => uint256)
  platformTotalFees,      \* platformTotalFees
  platformFeePercentage,  \* platformFeePercentage
  tokenIdCounter,         \* ComicNFT._tokenIdCounter
  tokenOwner,             \* ComicNFT: ownerOf, by token id (a sequence)
  tokenToEpisode,         \* ComicNFT.tokenToEpisode, by token id (a sequence)
  episodeSupply,          \* ComicNFT.episodeSupply
  episodeMaxSupply,       \* ComicNFT.episodeMaxSupply
  episodeMintPrice,       \* ComicNFT.episodeMintPrice
  episodeIsLive,          \* ComicNFT.episodeIsLive
  usdt,                   \* USDT balanceOf, by account
  last,                   \* the last transaction: function and outcome
  comics,                 \* ComicService.comics, by comic id
  calls                   \* batchMintComic calls: position and arguments

padVars == <<paused, projectIdCounter, episodeIdCounter, projects, episodes,
             mintingRules, creatorEarnings, projectEarnings, episodeEarnings,
             readAccess, episodeReads, platformTotalFees,
             platformFeePercentage>>
nftVars == <<tokenIdCounter, tokenOwner, tokenToEpisode, episodeSupply,
             episodeMaxSupply, episodeMintPrice, episodeIsLive>>
serviceVars == <<comics, calls>>
vars == <<padVars, nftVars, usdt, last, serviceVars>>

\* ------------------------------------------------- backend ComicService
ComicIds == 1..MaxComics
CallIds == 1..MaxServiceCalls

\* maxSupply given to createComic, quantity given to batchMintComic
ServiceMaxSupplies == {2, 3}
Quantities == {1, 2}

\* comics.get(comicId) of an id never stored
NoComic == [stored |-> FALSE, currentSupply |-> 0, maxSupply |-> 0]

\* a batchMintComic call not yet made
IdleCall == [pc |-> "idle", comicId |-> 0, quantity |-> 0, error |-> ""]

\* the ComicService constructor: no comic stored; no call made
InitComicService ==
  /\ comics = [c \in ComicIds |-> NoComic]
  /\ calls = [k \in CallIds |-> IdleCall]

\* ------------------------------------------------------------ zero values
\* What a Solidity mapping holds at a key never written.
NoProject == [creator |-> NoAddress, isActive |-> FALSE, totalEpisodes |-> 0,
              totalEarnings |-> 0]

NoEpisode == [projectId |-> 0, creator |-> NoAddress, mintPrice |-> 0,
              maxSupply |-> 0, currentSupply |-> 0, isLive |-> FALSE,
              isPayPerRead |-> FALSE, readPrice |-> 0, totalReads |-> 0,
              totalEarnings |-> 0]

NoRules == [episodeId |-> 0, mintPrice |-> 0, maxSupply |-> 0,
            creatorRewardPercentage |-> 0, platformFeePercentage |-> 0,
            allowPublicMinting |-> FALSE, readPrice |-> 0,
            isPayPerRead |-> FALSE]

NoEarnings == [totalEarnings |-> 0, creatorEarnings |-> 0, platformFees |-> 0,
               lastWithdrawal |-> 0]

\* ------------------------------------------------------------------ USDT
\* IERC20.transferFrom / transfer: the token moves `amount` when it accepts
\* the call (tokenOk: allowance given, nobody frozen) and `from` holds it.
TransferSucceeds(from, amount, tokenOk) == tokenOk /\ usdt[from] >= amount

UsdtAfterTransfer(from, to, amount) ==
  IF from = to THEN usdt
  ELSE [usdt EXCEPT ![from] = @ - amount, ![to] = @ + amount]

\* ------------------------------------------------------------------ Init
\* The state after ComicNFT's constructor and ComicPadV1.initialize.
Init ==
  /\ paused = FALSE
  /\ projectIdCounter = 1
  /\ episodeIdCounter = 1
  /\ projects = [p \in ProjectIds |-> NoProject]
  /\ episodes = [e \in EpisodeIds |-> NoEpisode]
  /\ mintingRules = [e \in EpisodeIds |-> NoRules]
  /\ creatorEarnings = [a \in Users |-> NoEarnings]
  /\ projectEarnings = [p \in ProjectIds |-> NoEarnings]
  /\ episodeEarnings = [e \in EpisodeIds |-> NoEarnings]
  /\ readAccess = [e \in EpisodeIds |-> [u \in Users |-> FALSE]]
  /\ episodeReads = [e \in EpisodeIds |-> 0]
  /\ platformTotalFees = 0
  /\ platformFeePercentage = PLATFORM_FEE
  /\ tokenIdCounter = 1
  /\ tokenOwner = <<>>
  /\ tokenToEpisode = <<>>
  /\ episodeSupply = [e \in EpisodeIds |-> 0]
  /\ episodeMaxSupply = [e \in EpisodeIds |-> 0]
  /\ episodeMintPrice = [e \in EpisodeIds |-> 0]
  /\ episodeIsLive = [e \in EpisodeIds |-> FALSE]
  /\ usdt = InitialFunds
  /\ last = [op |-> "initialize", result |-> "ok"]
  /\ InitComicService

\* ------------------------------------------------------- Catalog Store
CreateComicProjectResult(caller, title, description, genres) ==
  IF paused THEN "EnforcedPause"
  ELSE IF title = "" THEN "EmptyTitle"
  ELSE IF description = "" THEN "EmptyDescription"
  ELSE IF genres = <<>> THEN "NoGenres"
  ELSE "ok"

NextProjectId(counter) == counter + 1

CreateComicProject(caller, title, description, genres) ==
  LET res == CreateComicProjectResult(caller, title, description, genres)
      projectId == projectIdCounter
  IN
  /\ res = "ok" => projectIdCounter \in DOMAIN projects
  /\ last' = [op |-> "createComicProject", result |-> res]
  /\ IF res = "ok"
     THEN /\ projectIdCounter' = NextProjectId(projectIdCounter)
          /\ projects' = [projects EXCEPT ![projectId] =
                            [creator |-> caller, isActive |-> TRUE,
                             totalEpisodes |-> 0, totalEarnings |-> 0]]
     ELSE UNCHANGED <<projectIdCounter, projects>>
  /\ UNCHANGED <<paused, episodeIdCounter, episodes, mintingRules,
                 creatorEarnings, projectEarnings, episodeEarnings,
                 readAccess, episodeReads, platformTotalFees,
                 platformFeePercentage, nftVars, usdt>>
  /\ UNCHANGED serviceVars

\* ComicNFT.configureEpisode, called by the engine (onlyComicPad holds)
ConfigureEpisodeResult(episodeId, maxSupply, creator) ==
  IF episodeId = 0 THEN "InvalidEpisodeId"
  ELSE IF maxSupply = 0 THEN "ComicNFT.InvalidMaxSupply"
  ELSE IF creator = NoAddress THEN "InvalidCreatorAddress"
  ELSE "ok"

CreateComicEpisodeResult(projectId, caller, title, description, metadataUri, mintPrice, maxSupply) ==
  IF paused THEN "EnforcedPause"
  ELSE IF projects[projectId].creator = NoAddress THEN "ProjectDoesNotExist"
  ELSE IF projects[projectId].creator # caller THEN "NotProjectCreator"
  ELSE IF title = "" THEN "EmptyTitle"
  ELSE IF description = "" THEN "EmptyDescription"
  ELSE IF metadataUri = "" THEN "EmptyMetadataUri"
  ELSE IF maxSupply = 0 THEN "InvalidMaxSupply"
  ELSE ConfigureEpisodeResult(episodeIdCounter, maxSupply, caller)

\* (a variant that forgets _episodeIdCounter++)
NextEpisodeId_NoIncrement(counter) == counter

NextEpisodeId(counter) == counter + 1

CreateComicEpisode(projectId, caller, title, description, metadataUri, mintPrice, maxSupply) ==
  LET res == CreateComicEpisodeResult(projectId, caller, title, description,
                                      metadataUri, mintPrice, maxSupply)
      episodeId == episodeIdCounter
  IN
  /\ res = "ok" => episodeIdCounter \in DOMAIN episodes
  /\ last' = [op |-> "createComicEpisode", result |-> res]
  /\ IF res = "ok"
     THEN /\ episodeIdCounter' = NextEpisodeId(episodeIdCounter)
          /\ episodes' = [episodes EXCEPT ![episodeId] =
                            [projectId |-> projectId, creator |-> caller,
                             mintPrice |-> mintPrice, maxSupply |-> maxSupply,
                             currentSupply |-> 0, isLive |-> FALSE,
                             isPayPerRead |-> FALSE, readPrice |-> 0,
                             totalReads |-> 0, totalEarnings |-> 0]]
          /\ projects' = [projects EXCEPT
                            ![projectId].totalEpisodes = @ + 1]
          /\ episodeMaxSupply' =
               [episodeMaxSupply EXCEPT ![episodeId] = maxSupply]
          /\ episodeMintPrice' =
               [episodeMintPrice EXCEPT ![episodeId] = mintPrice]
     ELSE UNCHANGED <<episodeIdCounter, episodes, projects, episodeMaxSupply,
                      episodeMintPrice>>
  /\ UNCHANGED <<paused, projectIdCounter, mintingRules, creatorEarnings,
                 projectEarnings, episodeEarnings, readAccess, episodeReads,
                 platformTotalFees, platformFeePercentage, tokenIdCounter,
                 tokenOwner, tokenToEpisode, episodeSupply, episodeIsLive,
                 usdt>>
  /\ UNCHANGED serviceVars

\* ----------------------------------------------------- Minting Rule Set
\* (a variant without the isLive check)
SetMintingRulesResult_NoLiveCheck(episodeId, caller, r) ==
  IF paused THEN "EnforcedPause"
  ELSE IF episodes[episodeId].creator = NoAddress THEN "EpisodeDoesNotExist"
  ELSE IF episodes[episodeId].creator # caller THEN "NotEpisodeCreator"
  ELSE IF r.creatorRewardPercentage + r.platformFeePercentage > BASIS_POINTS
    THEN "InvalidPercentages"
  ELSE ConfigureEpisodeResult(episodeId, r.maxSupply, caller)

\* (a variant that checks isLive before the caller and the percentages)
SetMintingRulesResult_LiveCheckFirst(episodeId, caller, r) ==
  IF paused THEN "EnforcedPause"
  ELSE IF episodes[episodeId].creator = NoAddress THEN "EpisodeDoesNotExist"
  ELSE IF episodes[episodeId].isLive THEN "EpisodeAlreadyLive"
  ELSE IF episodes[episodeId].creator # caller THEN "NotEpisodeCreator"
  ELSE IF r.creatorRewardPercentage + r.platformFeePercentage > BASIS_POINTS
    THEN "InvalidPercentages"
  ELSE ConfigureEpisodeResult(episodeId, r.maxSupply, caller)

\* (a variant without the percentage check)
SetMintingRulesResult_NoPercentCheck(episodeId, caller, r) ==
  IF paused THEN "EnforcedPause"
  ELSE IF episodes[episodeId].creator = NoAddress THEN "EpisodeDoesNotExist"
  ELSE IF episodes[episodeId].creator # caller THEN "NotEpisodeCreator"
  ELSE IF episodes[episodeId].isLive THEN "EpisodeAlreadyLive"
  ELSE ConfigureEpisodeResult(episodeId, r.maxSupply, caller)

\* r: the arguments after episodeId (see Rules)
SetMintingRulesResult(episodeId, caller, r) ==
  IF paused THEN "EnforcedPause"
  ELSE IF episodes[episodeId].creator = NoAddress THEN "EpisodeDoesNotExist"
  ELSE IF episodes[episodeId].creator # caller THEN "NotEpisodeCreator"
  ELSE IF r.creatorRewardPercentage + r.platformFeePercentage > BASIS_POINTS
    THEN "InvalidPercentages"
  ELSE IF episodes[episodeId].isLive THEN "EpisodeAlreadyLive"
  ELSE ConfigureEpisodeResult(episodeId, r.maxSupply, caller)

\* getMintingRules has no modifier and no check: it never reverts
GetMintingRulesResult(episodeId) == "ok"

\* what getMintingRules returns
GetMintingRules(episodeId) == mintingRules[episodeId]

\* a call of the view function getMintingRules
GetMintingRulesCall(episodeId) ==
  /\ last' = [op |-> "getMintingRules",
              result |-> GetMintingRulesResult(episodeId),
              value |-> GetMintingRules(episodeId)]
  /\ UNCHANGED <<padVars, nftVars, usdt>>
  /\ UNCHANGED serviceVars

SetMintingRules(episodeId, caller, r) ==
  LET res == SetMintingRulesResult(episodeId, caller, r) IN
  /\ last' = [op |-> "setMintingRules", result |-> res]
  /\ IF res = "ok"
     THEN /\ mintingRules' = [mintingRules EXCEPT ![episodeId] =
               [episodeId |-> episodeId, mintPrice |-> r.mintPrice,
                maxSupply |-> r.maxSupply,
                creatorRewardPercentage |-> r.creatorRewardPercentage,
                platformFeePercentage |-> r.platformFeePercentage,
                allowPublicMinting |-> r.allowPublicMinting,
                readPrice |-> r.readPrice, isPayPerRead |-> r.isPayPerRead]]
          /\ episodes' = [episodes EXCEPT
               ![episodeId].mintPrice = r.mintPrice,
               ![episodeId].maxSupply = r.maxSupply,
               ![episodeId].readPrice = r.readPrice,
               ![episodeId].isPayPerRead = r.isPayPerRead]
          /\ episodeMaxSupply' =
               [episodeMaxSupply EXCEPT ![episodeId] = r.maxSupply]
          /\ episodeMintPrice' =
               [episodeMintPrice EXCEPT ![episodeId] = r.mintPrice]
     ELSE UNCHANGED <<mintingRules, episodes, episodeMaxSupply,
                      episodeMintPrice>>
  /\ UNCHANGED <<paused, projectIdCounter, episodeIdCounter, projects,
                 creatorEarnings, projectEarnings, episodeEarnings,
                 readAccess, episodeReads, platformTotalFees,
                 platformFeePercentage, tokenIdCounter, tokenOwner,
                 tokenToEpisode, episodeSupply, episodeIsLive, usdt>>
  /\ UNCHANGED serviceVars

\* ------------------------------------------------------ Issuance Ledger
\* (a variant without the mintPrice check)
GoLiveResult_NoPriceCheck(episodeId, caller) ==
  IF paused THEN "EnforcedPause"
  ELSE IF episodes[episodeId].creator = NoAddress THEN "EpisodeDoesNotExist"
  ELSE IF episodes[episodeId].creator # caller THEN "NotEpisodeCreator"
  ELSE IF episodes[episodeId].isLive THEN "EpisodeAlreadyLive"
  ELSE IF episodeId = 0 THEN "InvalidEpisodeId"
  ELSE "ok"

GoLiveResult(episodeId, caller) ==
  IF paused THEN "EnforcedPause"
  ELSE IF episodes[episodeId].creator = NoAddress THEN "EpisodeDoesNotExist"
  ELSE IF episodes[episodeId].creator # caller THEN "NotEpisodeCreator"
  ELSE IF episodes[episodeId].isLive THEN "EpisodeAlreadyLive"
  ELSE IF episodes[episodeId].mintPrice = 0 THEN "MintPriceNotSet"
  ELSE IF episodeId = 0 THEN "InvalidEpisodeId"
  ELSE "ok"

GoLive(episodeId, caller) ==
  LET res == GoLiveResult(episodeId, caller) IN
  /\ last' = [op |-> "goLive", result |-> res]
  /\ IF res = "ok"
     THEN /\ episodes' = [episodes EXCEPT ![episodeId].isLive = TRUE]
          /\ episodeIsLive' = [episodeIsLive EXCEPT ![episodeId] = TRUE]
     ELSE UNCHANGED <<episodes, episodeIsLive>>
  /\ UNCHANGED <<paused, projectIdCounter, episodeIdCounter, projects,
                 mintingRules, creatorEarnings, projectEarnings,
                 episodeEarnings, readAccess, episodeReads, platformTotalFees,
                 platformFeePercentage, tokenIdCounter, tokenOwner,
                 tokenToEpisode, episodeSupply, episodeMaxSupply,
                 episodeMintPrice, usdt>>
  /\ UNCHANGED serviceVars

\* the id ComicNFT.mint gives the token: tokenId = _tokenIdCounter
MintedTokenId == tokenIdCounter

\* (a variant that forgets _tokenIdCounter++)
NextTokenId_NoIncrement(counter) == counter

NextTokenId(counter) == counter + 1

\* a per-token mapping after the write at key tokenId
Minted(ledger, tokenId, v) ==
  [id \in (DOMAIN ledger) \cup {tokenId} |->
     IF id = tokenId THEN v ELSE ledger[id]]

\* (a variant without _safeMint's receiver check)
NftMintResult_NoReceiverCheck(to, episodeId, receiverOk) ==
  IF to = NoAddress THEN "MintToZeroAddress"
  ELSE IF ~episodeIsLive[episodeId] THEN "ComicNFT.EpisodeNotLive"
  ELSE IF episodeSupply[episodeId] >= episodeMaxSupply[episodeId]
    THEN "ComicNFT.EpisodeSupplyExceeded"
  ELSE IF MintedTokenId \in DOMAIN tokenOwner THEN "ERC721InvalidSender"
  ELSE "ok"

\* ComicNFT.mint, called by the engine; _safeMint refuses an id that is
\* already owned and a receiver that does not accept the token (receiverOk)
NftMintResult(to, episodeId, receiverOk) ==
  IF to = NoAddress THEN "MintToZeroAddress"
  ELSE IF ~episodeIsLive[episodeId] THEN "ComicNFT.EpisodeNotLive"
  ELSE IF episodeSupply[episodeId] >= episodeMaxSupply[episodeId]
    THEN "ComicNFT.EpisodeSupplyExceeded"
  ELSE IF MintedTokenId \in DOMAIN tokenOwner THEN "ERC721InvalidSender"
  ELSE IF ~receiverOk THEN "ERC721InvalidReceiver"
  ELSE "ok"

\* fee distribution of a mint
MintCreatorAmount(episodeId) ==
  (episodes[episodeId].mintPrice
     * mintingRules[episodeId].creatorRewardPercentage) \div BASIS_POINTS

MintPlatformAmount(episodeId) ==
  (episodes[episodeId].mintPrice
     * mintingRules[episodeId].platformFeePercentage) \div BASIS_POINTS

\* (a variant without the supply check)
MintChecksResult_NoSupplyCheck(episodeId) ==
  IF paused THEN "EnforcedPause"
  ELSE IF ~episodes[episodeId].isLive THEN "EpisodeNotLive"
  ELSE IF ~mintingRules[episodeId].allowPublicMinting
    THEN "PublicMintingNotAllowed"
  ELSE IF episodes[episodeId].mintPrice = 0 THEN "MintPriceNotSet"
  ELSE "ok"

\* (a variant without the allowPublicMinting check)
MintChecksResult_NoPublicCheck(episodeId) ==
  IF paused THEN "EnforcedPause"
  ELSE IF ~episodes[episodeId].isLive THEN "EpisodeNotLive"
  ELSE IF episodes[episodeId].currentSupply >= episodes[episodeId].maxSupply
    THEN "EpisodeSupplyExceeded"
  ELSE IF episodes[episodeId].mintPrice = 0 THEN "MintPriceNotSet"
  ELSE "ok"

\* the checks of mintComicNFT before it writes anything
MintChecksResult(episodeId) ==
  IF paused THEN "EnforcedPause"
  ELSE IF ~episodes[episodeId].isLive THEN "EpisodeNotLive"
  ELSE IF ~mintingRules[episodeId].allowPublicMinting
    THEN "PublicMintingNotAllowed"
  ELSE IF episodes[episodeId].currentSupply >= episodes[episodeId].maxSupply
    THEN "EpisodeSupplyExceeded"
  ELSE IF episodes[episodeId].mintPrice = 0 THEN "MintPriceNotSet"
  ELSE "ok"

\* (a variant that ignores what transferFrom returns)
MintSettlementResult_Unchecked(episodeId, caller, tokenOk) == "ok"

\* whether the transferFrom of mintComicNFT lets it go on
MintSettlementResult(episodeId, caller, tokenOk) ==
  IF ~TransferSucceeds(caller, episodes[episodeId].mintPrice, tokenOk)
    THEN "USDTTransferFailed"
  ELSE "ok"

MintComicNFTResult(episodeId, caller, tokenOk, receiverOk) ==
  IF MintChecksResult(episodeId) # "ok" THEN MintChecksResult(episodeId)
  ELSE IF MintSettlementResult(episodeId, caller, tokenOk) # "ok"
    THEN MintSettlementResult(episodeId, caller, tokenOk)
  ELSE NftMintResult(caller, episodeId, receiverOk)

\* (a variant that forgets the creatorEarnings field)
Credited_TotalOnly(earnings, gross, creatorAmount) ==
  [earnings EXCEPT !.totalEarnings = @ + gross]

\* an EarningsData record credited with one sale
Credited(earnings, gross, creatorAmount) ==
  [earnings EXCEPT !.totalEarnings = @ + gross,
                   !.creatorEarnings = @ + creatorAmount]

MintComicNFT(episodeId, caller, tokenOk, receiverOk) ==
  LET res == MintComicNFTResult(episodeId, caller, tokenOk, receiverOk)
      episode == episodes[episodeId]
      creatorAmount == MintCreatorAmount(episodeId)
      platformAmount == MintPlatformAmount(episodeId)
      paid == TransferSucceeds(caller, episode.mintPrice, tokenOk)
  IN
  /\ last' = [op |-> "mintComicNFT", result |-> res]
  /\ IF res = "ok"
     THEN /\ episodes' = [episodes EXCEPT
               ![episodeId].currentSupply = @ + 1,
               ![episodeId].totalEarnings = @ + episode.mintPrice]
          /\ creatorEarnings' = [creatorEarnings EXCEPT ![episode.creator] =
               Credited(@, episode.mintPrice, creatorAmount)]
          /\ projectEarnings' = [projectEarnings EXCEPT ![episode.projectId] =
               Credited(@, episode.mintPrice, creatorAmount)]
          /\ episodeEarnings' = [episodeEarnings EXCEPT ![episodeId] =
               Credited(@, episode.mintPrice, creatorAmount)]
          /\ platformTotalFees' = platformTotalFees + platformAmount
          /\ usdt' = IF paid
                     THEN UsdtAfterTransfer(caller, ComicPad, episode.mintPrice)
                     ELSE usdt
          /\ tokenIdCounter' = NextTokenId(tokenIdCounter)
          /\ tokenOwner' = Minted(tokenOwner, MintedTokenId, caller)
          /\ tokenToEpisode' = Minted(tokenToEpisode, MintedTokenId, episodeId)
          /\ episodeSupply' = [episodeSupply EXCEPT ![episodeId] = @ + 1]
     ELSE UNCHANGED <<episodes, creatorEarnings, projectEarnings,
                      episodeEarnings, platformTotalFees, usdt,
                      tokenIdCounter, tokenOwner, tokenToEpisode,
                      episodeSupply>>
  /\ UNCHANGED <<paused, projectIdCounter, episodeIdCounter, projects,
                 mintingRules, readAccess, episodeReads,
                 platformFeePercentage, episodeMaxSupply, episodeMintPrice,
                 episodeIsLive>>
  /\ UNCHANGED serviceVars

\* --------------------------------------------------- Read-Access Ledger
\* (a variant that looks at readPrice alone)
IsPaidRead_PriceOnly(episodeId) == episodes[episodeId].readPrice > 0

\* whether readComic takes the paying branch
IsPaidRead(episodeId) ==
  episodes[episodeId].isPayPerRead /\ episodes[episodeId].readPrice > 0

ReadCreatorAmount(episodeId) ==
  (episodes[episodeId].readPrice * (BASIS_POINTS - platformFeePercentage))
    \div BASIS_POINTS

ReadPlatformAmount(episodeId) ==
  (episodes[episodeId].readPrice * platformFeePercentage) \div BASIS_POINTS

\* (a variant without the readAccess check)
ReadComicResult_NoAccessCheck(episodeId, caller, tokenOk) ==
  IF paused THEN "EnforcedPause"
  ELSE IF ~episodes[episodeId].isLive THEN "EpisodeNotLive"
  ELSE IF IsPaidRead(episodeId)
          /\ ~TransferSucceeds(caller, episodes[episodeId].readPrice, tokenOk)
    THEN "USDTTransferFailed"
  ELSE "ok"

\* (a variant that ignores what transferFrom returns)
ReadComicResult_Unchecked(episodeId, caller, tokenOk) ==
  IF paused THEN "EnforcedPause"
  ELSE IF ~episodes[episodeId].isLive THEN "EpisodeNotLive"
  ELSE IF IsPaidRead(episodeId) /\ readAccess[episodeId][caller]
    THEN "AlreadyPaidForAccess"
  ELSE "ok"

ReadComicResult(episodeId, caller, tokenOk) ==
  IF paused THEN "EnforcedPause"
  ELSE IF ~episodes[episodeId].isLive THEN "EpisodeNotLive"
  ELSE IF IsPaidRead(episodeId) /\ readAccess[episodeId][caller]
    THEN "AlreadyPaidForAccess"
  ELSE IF IsPaidRead(episodeId)
          /\ ~TransferSucceeds(caller, episodes[episodeId].readPrice, tokenOk)
    THEN "USDTTransferFailed"
  ELSE "ok"

ReadComic(episodeId, caller, tokenOk) ==
  LET res == ReadComicResult(episodeId, caller, tokenOk)
      episode == episodes[episodeId]
      creatorAmount == ReadCreatorAmount(episodeId)
      platformAmount == ReadPlatformAmount(episodeId)
      paid == TransferSucceeds(caller, episode.readPrice, tokenOk)
  IN
  /\ (res = "ok" /\ ~IsPaidRead(episodeId)) => episode.totalReads < MaxReads
  /\ last' = [op |-> "readComic", result |-> res]
  /\ IF res = "ok" /\ IsPaidRead(episodeId)
     THEN /\ creatorEarnings' = [creatorEarnings EXCEPT ![episode.creator] =
               Credited(@, episode.readPrice, creatorAmount)]
          /\ projectEarnings' = [projectEarnings EXCEPT ![episode.projectId] =
               Credited(@, episode.readPrice, creatorAmount)]
          /\ episodeEarnings' = [episodeEarnings EXCEPT ![episodeId] =
               Credited(@, episode.readPrice, creatorAmount)]
          /\ platformTotalFees' = platformTotalFees + platformAmount
          /\ readAccess' = [readAccess EXCEPT ![episodeId][caller] = TRUE]
          /\ usdt' = IF paid
                     THEN UsdtAfterTransfer(caller, ComicPad, episode.readPrice)
                     ELSE usdt
     ELSE UNCHANGED <<creatorEarnings, projectEarnings, episodeEarnings,
                      platformTotalFees, readAccess, usdt>>
  /\ IF res = "ok"
     THEN /\ episodeReads' = [episodeReads EXCEPT ![episodeId] = @ + 1]
          /\ episodes' = [episodes EXCEPT ![episodeId].totalReads = @ + 1]
     ELSE UNCHANGED <<episodeReads, episodes>>
  /\ UNCHANGED <<paused, projectIdCounter, episodeIdCounter, projects,
                 mintingRules, platformFeePercentage, nftVars>>
  /\ UNCHANGED serviceVars

\* (a variant that answers from readAccess alone)
HasReadAccess_RecordOnly(episodeId, user) == readAccess[episodeId][user]

\* what hasReadAccess returns
HasReadAccess(episodeId, user) ==
  IF ~episodes[episodeId].isPayPerRead THEN TRUE
  ELSE readAccess[episodeId][user]

\* a call of the view function hasReadAccess: it returns, and writes nothing
HasReadAccessCall(episodeId, user) ==
  /\ last' = [op |-> "hasReadAccess", result |-> "ok",
              value |-> HasReadAccess(episodeId, user)]
  /\ UNCHANGED <<padVars, nftVars, usdt>>
  /\ UNCHANGED serviceVars

\* --------------------------------------------------- Withdrawal Subsystem
\* (a variant that takes amount 0 literally)
WithdrawAmount_Literal(caller, amount) == amount

\* what withdrawEarnings(amount) takes out: everything when amount is 0
WithdrawAmount(caller, amount) ==
  IF amount = 0 THEN creatorEarnings[caller].creatorEarnings ELSE amount

\* (a variant that ignores what transfer returns)
WithdrawEarningsResult_Unchecked(caller, amount, tokenOk) ==
  IF paused THEN "EnforcedPause"
  ELSE IF creatorEarnings[caller].creatorEarnings = 0
    THEN "NoEarningsToWithdraw"
  ELSE IF WithdrawAmount(caller, amount)
            > creatorEarnings[caller].creatorEarnings
    THEN "InsufficientEarnings"
  ELSE "ok"

WithdrawEarningsResult(caller, amount, tokenOk) ==
  IF paused THEN "EnforcedPause"
  ELSE IF creatorEarnings[caller].creatorEarnings = 0
    THEN "NoEarningsToWithdraw"
  ELSE IF WithdrawAmount(caller, amount)
            > creatorEarnings[caller].creatorEarnings
    THEN "InsufficientEarnings"
  ELSE IF ~TransferSucceeds(ComicPad, WithdrawAmount(caller, amount), tokenOk)
    THEN "USDTTransferFailed"
  ELSE "ok"

WithdrawEarnings(caller, amount, tokenOk, timestamp) ==
  LET res == WithdrawEarningsResult(caller, amount, tokenOk)
      withdrawAmount == WithdrawAmount(caller, amount)
      paid == TransferSucceeds(ComicPad, withdrawAmount, tokenOk)
  IN
  /\ timestamp >= creatorEarnings[caller].lastWithdrawal
  /\ last' = [op |-> "withdrawEarnings", result |-> res]
  /\ IF res = "ok"
     THEN /\ creatorEarnings' = [creatorEarnings EXCEPT
               ![caller].creatorEarnings = @ - withdrawAmount,
               ![caller].lastWithdrawal = timestamp]
          /\ usdt' = IF paid
                     THEN UsdtAfterTransfer(ComicPad, caller, withdrawAmount)
                     ELSE usdt
     ELSE UNCHANGED <<creatorEarnings, usdt>>
  /\ UNCHANGED <<paused, projectIdCounter, episodeIdCounter, projects,
                 episodes, mintingRules, projectEarnings, episodeEarnings,
                 readAccess, episodeReads, platformTotalFees,
                 platformFeePercentage, nftVars>>
  /\ UNCHANGED serviceVars

\* (a variant without onlyOwner)
WithdrawPlatformFeesResult_NoOwnerCheck(caller, amount, tokenOk) ==
  IF amount > platformTotalFees THEN "InsufficientPlatformFees"
  ELSE IF ~TransferSucceeds(ComicPad, amount, tokenOk)
    THEN "USDTTransferFailed"
  ELSE "ok"

WithdrawPlatformFeesResult(caller, amount, tokenOk) ==
  IF caller # Owner THEN "OwnableUnauthorizedAccount"
  ELSE IF amount > platformTotalFees THEN "InsufficientPlatformFees"
  ELSE IF ~TransferSucceeds(ComicPad, amount, tokenOk)
    THEN "USDTTransferFailed"
  ELSE "ok"

WithdrawPlatformFees(caller, amount, tokenOk) ==
  LET res == WithdrawPlatformFeesResult(caller, amount, tokenOk)
      paid == TransferSucceeds(ComicPad, amount, tokenOk)
  IN
  /\ last' = [op |-> "withdrawPlatformFees", result |-> res]
  /\ IF res = "ok"
     THEN /\ platformTotalFees' = platformTotalFees - amount
          /\ usdt' = IF paid
                     THEN UsdtAfterTransfer(ComicPad, Treasury, amount)
                     ELSE usdt
     ELSE UNCHANGED <<platformTotalFees, usdt>>
  /\ UNCHANGED <<paused, projectIdCounter, episodeIdCounter, projects,
                 episodes, mintingRules, creatorEarnings, projectEarnings,
                 episodeEarnings, readAccess, episodeReads,
                 platformFeePercentage, nftVars>>
  /\ UNCHANGED serviceVars

\* ------------------------------------------------------- admin functions
SetPlatformFeePercentageResult(caller, feePercentage) ==
  IF caller # Owner THEN "OwnableUnauthorizedAccount"
  ELSE IF feePercentage > MAX_PLATFORM_FEE THEN "PlatformFeeTooHigh"
  ELSE "ok"

SetPlatformFeePercentage(caller, feePercentage) ==
  LET res == SetPlatformFeePercentageResult(caller, feePercentage) IN
  /\ last' = [op |-> "setPlatformFeePercentage", result |-> res]
  /\ platformFeePercentage' =
       IF res = "ok" THEN feePercentage ELSE platformFeePercentage
  /\ UNCHANGED <<paused, projectIdCounter, episodeIdCounter, projects,
                 episodes, mintingRules, creatorEarnings, projectEarnings,
                 episodeEarnings, readAccess, episodeReads, platformTotalFees,
                 nftVars, usdt>>
  /\ UNCHANGED serviceVars

PauseResult(caller) ==
  IF caller # Owner THEN "OwnableUnauthorizedAccount"
  ELSE IF paused THEN "EnforcedPause"
  ELSE "ok"

Pause(caller) ==
  LET res == PauseResult(caller) IN
  /\ last' = [op |-> "pause", result |-> res]
  /\ paused' = IF res = "ok" THEN TRUE ELSE paused
  /\ UNCHANGED <<projectIdCounter, episodeIdCounter, projects, episodes,
                 mintingRules, creatorEarnings, projectEarnings,
                 episodeEarnings, readAccess, episodeReads, platformTotalFees,
                 platformFeePercentage, nftVars, usdt>>
  /\ UNCHANGED serviceVars

UnpauseResult(caller) ==
  IF caller # Owner THEN "OwnableUnauthorizedAccount"
  ELSE IF ~paused THEN "ExpectedPause"
  ELSE "ok"

Unpause(caller) ==
  LET res == UnpauseResult(caller) IN
  /\ last' = [op |-> "unpause", result |-> res]
  /\ paused' = IF res = "ok" THEN FALSE ELSE paused
  /\ UNCHANGED <<projectIdCounter, episodeIdCounter, projects, episodes,
                 mintingRules, creatorEarnings, projectEarnings,
                 episodeEarnings, readAccess, episodeReads, platformTotalFees,
                 platformFeePercentage, nftVars, usdt>>
  /\ UNCHANGED serviceVars

\* ------------------------------------------------------------------ Next
Callers == Users \cup {Owner}

Next ==
  \/ \E caller \in Creators, a \in ProjectArgs :
       CreateComicProject(caller, a[1], a[2], a[3])
  \/ \E projectId \in ProjectIds, caller \in Users, a \in EpisodeArgs :
       CreateComicEpisode(projectId, caller, a[1], a[2], a[3], a[4], a[5])
  \/ \E episodeId \in EpisodeIds, caller \in Users, r \in RuleChoices :
       SetMintingRules(episodeId, caller, r)
  \/ \E episodeId \in EpisodeIds, caller \in Users :
       GoLive(episodeId, caller)
  \/ \E episodeId \in EpisodeIds, caller \in Users, tokenOk \in BOOLEAN,
        receiverOk \in BOOLEAN :
       MintComicNFT(episodeId, caller, tokenOk, receiverOk)
  \/ \E episodeId \in EpisodeIds, caller \in Users, tokenOk \in BOOLEAN :
       ReadComic(episodeId, caller, tokenOk)
  \/ \E caller \in Users, amount \in WithdrawAmounts, tokenOk \in BOOLEAN,
        timestamp \in Timestamps :
       WithdrawEarnings(caller, amount, tokenOk, timestamp)
  \/ \E caller \in Callers, amount \in PlatformWithdrawAmounts,
        tokenOk \in BOOLEAN :
       WithdrawPlatformFees(caller, amount, tokenOk)
  \/ \E caller \in Callers, feePercentage \in FeeChoices :
       SetPlatformFeePercentage(caller, feePercentage)
  \/ \E caller \in Callers : Pause(caller)
  \/ \E caller \in Callers : Unpause(caller)
  \/ \E episodeId \in EpisodeIds, user \in Users :
       HasReadAccessCall(episodeId, user)
  \/ \E episodeId \in EpisodeIds : GetMintingRulesCall(episodeId)

Spec == Init /\ [][Next]_vars

\* ------------------------------------------- the engine with two episodes
\* The same engine from the same construction, with room for
\* MaxIssuanceEpisodes episodes of one project and a narrower choice of
\* inputs: the creator sets up and opens the episodes, the users mint.
IssuanceEpisodeIds == 1..MaxIssuanceEpisodes
IssuanceProjectIds == 1..MaxIssuanceProjects

\* (title, description, metadataUri, mintPrice, maxSupply)
IssuanceEpisodeArgs ==
  { <<"x", "x", "ipfs", 100, 2>>, <<"x", "x", "ipfs", 100, 0>> }

IssuanceRules ==
  { Rules(100, 2, 8000, 200, TRUE, 0, FALSE),
    Rules(100, 1, 8000, 200, TRUE, 10, TRUE) }

InitIssuance ==
  /\ paused = FALSE
  /\ projectIdCounter = 1
  /\ episodeIdCounter = 1
  /\ projects = [p \in IssuanceProjectIds |-> NoProject]
  /\ episodes = [e \in IssuanceEpisodeIds |-> NoEpisode]
  /\ mintingRules = [e \in IssuanceEpisodeIds |-> NoRules]
  /\ creatorEarnings = [a \in Users |-> NoEarnings]
  /\ projectEarnings = [p \in IssuanceProjectIds |-> NoEarnings]
  /\ episodeEarnings = [e \in IssuanceEpisodeIds |-> NoEarnings]
  /\ readAccess = [e \in IssuanceEpisodeIds |-> [u \in Users |-> FALSE]]
  /\ episodeReads = [e \in IssuanceEpisodeIds |-> 0]
  /\ platformTotalFees = 0
  /\ platformFeePercentage = PLATFORM_FEE
  /\ tokenIdCounter = 1
  /\ tokenOwner = <<>>
  /\ tokenToEpisode = <<>>
  /\ episodeSupply = [e \in IssuanceEpisodeIds |-> 0]
  /\ episodeMaxSupply = [e \in IssuanceEpisodeIds |-> 0]
  /\ episodeMintPrice = [e \in IssuanceEpisodeIds |-> 0]
  /\ episodeIsLive = [e \in IssuanceEpisodeIds |-> FALSE]
  /\ usdt = InitialFunds
  /\ last = [op |-> "initialize", result |-> "ok"]
  /\ InitComicService

NextIssuance ==
  \/ \E caller \in Creators :
       CreateComicProject(caller, "x", "x", <<"Action">>)
  \/ \E projectId \in IssuanceProjectIds, caller \in Users,
        a \in IssuanceEpisodeArgs :
       CreateComicEpisode(projectId, caller, a[1], a[2], a[3], a[4], a[5])
  \/ \E episodeId \in IssuanceEpisodeIds, caller \in Creators,
        r \in IssuanceRules :
       SetMintingRules(episodeId, caller, r)
  \/ \E episodeId \in IssuanceEpisodeIds, caller \in Creators :
       GoLive(episodeId, caller)
  \/ \E episodeId \in IssuanceEpisodeIds, caller \in Users,
        tokenOk \in BOOLEAN, receiverOk \in BOOLEAN :
       MintComicNFT(episodeId, caller, tokenOk, receiverOk)

SpecIssuance == InitIssuance /\ [][NextIssuance]_vars

\* ------------------------------------------------- backend ComicService
\* createComic: after its uploads and the first mint it stores the comic
\* with currentSupply 1 and the maxSupply it was given
CreateComic(comicId, maxSupply) ==
  /\ ~comics[comicId].stored
  /\ comics' = [comics EXCEPT ![comicId] =
                  [stored |-> TRUE, currentSupply |-> 1,
                   maxSupply |-> maxSupply]]
  /\ UNCHANGED <<calls, padVars, nftVars, usdt, last>>

\* the checks batchMintComic makes before it awaits the batch mint
BatchMintComicCheck(comicId, quantity) ==
  IF ~comics[comicId].stored THEN "Comic not found"
  ELSE IF comics[comicId].currentSupply + quantity > comics[comicId].maxSupply
    THEN "Exceeds maximum supply"
  ELSE "ok"

\* batchMintComic up to its await: it throws, or hands the batch to
\* hederaService.batchMintNFTs and yields
BatchMintComicStart(k, comicId, quantity) ==
  LET res == BatchMintComicCheck(comicId, quantity) IN
  /\ calls[k].pc = "idle"
  /\ calls' = [calls EXCEPT ![k] =
                 [pc |-> IF res = "ok" THEN "awaiting" ELSE "thrown",
                  comicId |-> comicId, quantity |-> quantity,
                  error |-> IF res = "ok" THEN "" ELSE res]]
  /\ UNCHANGED <<comics, padVars, nftVars, usdt, last>>

\* batchMintComic after its await: the batch mint resolved (mintOk) and the
\* supply is increased, or it rejected and the call throws
BatchMintComicResume(k, mintOk) ==
  /\ calls[k].pc = "awaiting"
  /\ IF mintOk
     THEN /\ comics' = [comics EXCEPT ![calls[k].comicId].currentSupply =
                          @ + calls[k].quantity]
          /\ calls' = [calls EXCEPT ![k].pc = "returned"]
     ELSE /\ calls' = [calls EXCEPT ![k].pc = "thrown",
                                    ![k].error = "batchMintNFTs failed"]
          /\ UNCHANGED comics
  /\ UNCHANGED <<padVars, nftVars, usdt, last>>

NextService ==
  \/ \E comicId \in ComicIds, maxSupply \in ServiceMaxSupplies :
       CreateComic(comicId, maxSupply)
  \/ \E k \in CallIds, comicId \in ComicIds, quantity \in Quantities :
       BatchMintComicStart(k, comicId, quantity)
  \/ \E k \in CallIds, mintOk \in BOOLEAN :
       BatchMintComicResume(k, mintOk)

SpecService == Init /\ [][NextService]_vars

\* =====================================================================
\* Properties
\* =====================================================================
Exists(e) == episodes[e].creator # NoAddress

MintedOk == [op |-> "mintComicNFT", result |-> "ok"]

\* everything but `last`
chainVars == <<padVars, nftVars, usdt>>

\* C1: in every reachable state every episode has currentSupply <= maxSupply,
\* whatever createComicEpisode, setMintingRules, goLive and mintComicNFT
\* calls came before.
C1_SupplyWithinMax ==
  \A e \in EpisodeIds : episodes[e].currentSupply <= episodes[e].maxSupply

\* an episode created with two copies, cut to one by setMintingRules before
\* go-live, and sold out by a mint
C1_Witness ==
  \E e \in EpisodeIds :
    /\ episodes[e].isLive
    /\ mintingRules[e].maxSupply = 1
    /\ episodes[e].maxSupply = 1
    /\ episodes[e].currentSupply = 1
    /\ last = MintedOk

\* C2: with one unit left, the first mint of a caller who can pay succeeds
\* and takes it; from then on the episode stays sold out and every further
\* mint, by anyone, fails with EpisodeSupplyExceeded.  Transactions run one
\* after another in any order, so of N callers racing for the last unit
\* exactly one wins.
C2_LastUnitState ==
  \A e \in EpisodeIds, u \in Users :
    (~paused /\ episodes[e].isLive /\ mintingRules[e].allowPublicMinting)
    => /\ (episodes[e].currentSupply + 1 = episodes[e].maxSupply
            /\ usdt[u] >= episodes[e].mintPrice)
          => MintComicNFTResult(e, u, TRUE, TRUE) = "ok"
       /\ episodes[e].currentSupply >= episodes[e].maxSupply
          => \A tokenOk \in BOOLEAN, receiverOk \in BOOLEAN :
               MintComicNFTResult(e, u, tokenOk, receiverOk)
                 = "EpisodeSupplyExceeded"

C2_LastUnitStep ==
  \A e \in EpisodeIds :
    /\ episodes'[e].currentSupply # episodes[e].currentSupply
       => /\ last' = MintedOk
          /\ episodes[e].currentSupply < episodes[e].maxSupply
          /\ episodes'[e].currentSupply = episodes[e].currentSupply + 1
          /\ Len(tokenOwner') = Len(tokenOwner) + 1
    /\ (episodes[e].isLive
         /\ episodes[e].currentSupply = episodes[e].maxSupply)
       => (episodes'[e].isLive
            /\ episodes'[e].currentSupply = episodes'[e].maxSupply)

C2_ExactlyOneWinsLastUnit == [](C2_LastUnitState) /\ [][C2_LastUnitStep]_vars

\* the last unit went to one caller and a later mint was turned away, while
\* some caller still held the price
C2_Witness ==
  \E e \in EpisodeIds :
    /\ ~paused
    /\ episodes[e].isLive
    /\ episodes[e].currentSupply = episodes[e].maxSupply
    /\ Len(tokenOwner) = episodes[e].maxSupply
    /\ \E u \in Users : usdt[u] >= episodes[e].mintPrice
    /\ last = [op |-> "mintComicNFT", result |-> "EpisodeSupplyExceeded"]

\* C3: on every mint and every paid read, what the creator is credited plus
\* what the platform-fee accumulator gains equals the gross amount charged.
C3_SplitConservesGross ==
  [][\A e \in EpisodeIds :
       episodeEarnings'[e].totalEarnings # episodeEarnings[e].totalEarnings
       => (episodeEarnings'[e].creatorEarnings
             - episodeEarnings[e].creatorEarnings)
            + (platformTotalFees' - platformTotalFees)
          = episodeEarnings'[e].totalEarnings
              - episodeEarnings[e].totalEarnings]_vars

\* C4: an episode that is live stays live.
C4_LiveNeverReverts ==
  [][\A e \in EpisodeIds : episodes[e].isLive => episodes'[e].isLive]_vars

\* a live episode that has since been minted from and read
C4_Witness ==
  \E e \in EpisodeIds :
    /\ episodes[e].isLive
    /\ episodes[e].currentSupply > 0
    /\ episodes[e].totalReads > 0
    /\ last.op \notin {"goLive", "mintComicNFT", "readComic"}

\* C5: once an episode is live its MintingRules record and the Episode
\* fields mirrored from it (mintPrice, maxSupply, readPrice, isPayPerRead)
\* never change.
C5_RulesFrozenAfterGoLive ==
  [][\A e \in EpisodeIds :
       episodes[e].isLive
       => /\ mintingRules'[e] = mintingRules[e]
          /\ episodes'[e].mintPrice = episodes[e].mintPrice
          /\ episodes'[e].maxSupply = episodes[e].maxSupply
          /\ episodes'[e].readPrice = episodes[e].readPrice
          /\ episodes'[e].isPayPerRead = episodes[e].isPayPerRead]_vars

\* a live episode whose rules were set, after a setMintingRules was tried
\* on it
C5_Witness ==
  \E e \in EpisodeIds :
    /\ episodes[e].isLive
    /\ mintingRules[e].episodeId = e
    /\ episodes[e].currentSupply > 0
    /\ last = [op |-> "setMintingRules", result |-> "EpisodeAlreadyLive"]

\* C6 as claimed: on a live episode setMintingRules fails with
\* EpisodeAlreadyLive for every caller and every argument.
C6_AlwaysAlreadyLive ==
  \A e \in EpisodeIds, caller \in Users, r \in RuleChoices :
    (~paused /\ episodes[e].isLive)
    => SetMintingRulesResult(e, caller, r) = "EpisodeAlreadyLive"

\* C6 as amended: on a live episode setMintingRules never succeeds; it fails
\* with NotEpisodeCreator for a caller who is not the creator, else with
\* InvalidPercentages when the two percentages exceed 10000, and with
\* EpisodeAlreadyLive otherwise.
C6_SetRulesAfterLiveFails ==
  \A e \in EpisodeIds, caller \in Users, r \in RuleChoices :
    (~paused /\ episodes[e].isLive)
    => SetMintingRulesResult(e, caller, r) =
         IF caller # episodes[e].creator THEN "NotEpisodeCreator"
         ELSE IF r.creatorRewardPercentage + r.platformFeePercentage
                   > BASIS_POINTS THEN "InvalidPercentages"
         ELSE "EpisodeAlreadyLive"

\* a setMintingRules on a live episode has just been refused as AlreadyLive
C6_Witness ==
  /\ \E e \in EpisodeIds : episodes[e].isLive
  /\ last = [op |-> "setMintingRules", result |-> "EpisodeAlreadyLive"]

\* C7: at every earnings aggregate (creator, project, episode)
\* creatorEarnings <= totalEarnings.
C7_CreatorShareWithinTotal ==
  /\ \A a \in Users :
       creatorEarnings[a].creatorEarnings <= creatorEarnings[a].totalEarnings
  /\ \A p \in ProjectIds :
       projectEarnings[p].creatorEarnings <= projectEarnings[p].totalEarnings
  /\ \A e \in EpisodeIds :
       episodeEarnings[e].creatorEarnings <= episodeEarnings[e].totalEarnings

\* mints, a paid read under a changed platform fee and a partial withdrawal
\* have all happened
C7_Witness ==
  \E e \in EpisodeIds, a \in Users :
    /\ episodes[e].currentSupply > 0
    /\ \E u \in Users : readAccess[e][u]
    /\ platformFeePercentage # PLATFORM_FEE
    /\ creatorEarnings[a].lastWithdrawal > 0
    /\ creatorEarnings[a].creatorEarnings > 0

\* C8: a mint whose USDT transfer fails reverts as USDTTransferFailed and
\* leaves supply, earnings, fees, the token counter and the tokens as they
\* were; no copy is ever issued without the engine receiving the mint price.
C8_FailedSettlementState ==
  \A e \in EpisodeIds, u \in Users, tokenOk \in BOOLEAN,
     receiverOk \in BOOLEAN :
    (MintChecksResult(e) = "ok"
      /\ ~TransferSucceeds(u, episodes[e].mintPrice, tokenOk))
    => MintComicNFTResult(e, u, tokenOk, receiverOk) = "USDTTransferFailed"

C8_FailedSettlementStep ==
  /\ last' = [op |-> "mintComicNFT", result |-> "USDTTransferFailed"]
     => UNCHANGED chainVars
  /\ \A e \in EpisodeIds :
       (episodes'[e].currentSupply # episodes[e].currentSupply
         \/ episodeEarnings'[e].totalEarnings
              > episodeEarnings[e].totalEarnings + episodes[e].readPrice
         \/ (tokenIdCounter' # tokenIdCounter /\ Exists(e)))
       => \E x \in EpisodeIds :
            usdt'[ComicPad] = usdt[ComicPad] + episodes[x].mintPrice

C8_MintRollsBackOnSettlementFailure ==
  [](C8_FailedSettlementState) /\ [][C8_FailedSettlementStep]_vars

\* a mint that passed every check has just failed on the transfer
C8_Witness ==
  /\ \E e \in EpisodeIds : MintChecksResult(e) = "ok"
  /\ last = [op |-> "mintComicNFT", result |-> "USDTTransferFailed"]

\* the scenario of C9 has run on episode e: two copies at 100, 8000/200,
\* both sold, nothing else earned, nothing withdrawn
C9_ScenarioPlayed(e) ==
  /\ episodes[e].isLive
  /\ episodes[e].maxSupply = 2
  /\ episodes[e].mintPrice = 100
  /\ mintingRules[e].creatorRewardPercentage = 8000
  /\ mintingRules[e].platformFeePercentage = 200
  /\ mintingRules[e].allowPublicMinting
  /\ episodes[e].currentSupply = 2
  /\ creatorEarnings[episodes[e].creator].totalEarnings = 200
  /\ creatorEarnings[episodes[e].creator].lastWithdrawal = 0
  /\ usdt[Treasury] = 0

\* C9: after that scenario a third mint fails with EpisodeSupplyExceeded,
\* the creator's creatorEarnings is 160 and the platform fees are 40.
C9_Scenario ==
  \A e \in EpisodeIds :
    C9_ScenarioPlayed(e)
    => /\ creatorEarnings[episodes[e].creator].creatorEarnings = 160
       /\ platformTotalFees = 40
       /\ \A u \in Users :
            ~paused => MintComicNFTResult(e, u, TRUE, TRUE)
                         = "EpisodeSupplyExceeded"

\* C10 as claimed: the readComic that fails with AlreadyPaidForAccess still
\* counts, so after it the episode has at least two reads.
C10_SecondReadCounted ==
  (last = [op |-> "readComic", result |-> "AlreadyPaidForAccess"])
  => \E e \in EpisodeIds :
       /\ IsPaidRead(e)
       /\ \E u \in Users : readAccess[e][u]
       /\ episodes[e].totalReads >= 2

\* C10 as amended: on a live pay-per-read episode with readPrice > 0 the
\* first readComic of a reader who can pay succeeds, records the access and
\* adds one to totalReads; every later readComic of that reader fails with
\* AlreadyPaidForAccess and changes nothing, totalReads included.
C10_ReadState ==
  \A e \in EpisodeIds, u \in Users :
    (~paused /\ episodes[e].isLive /\ IsPaidRead(e))
    => /\ (~readAccess[e][u] /\ usdt[u] >= episodes[e].readPrice)
          => ReadComicResult(e, u, TRUE) = "ok"
       /\ readAccess[e][u]
          => \A tokenOk \in BOOLEAN :
               ReadComicResult(e, u, tokenOk) = "AlreadyPaidForAccess"

C10_ReadStep ==
  /\ last' = [op |-> "readComic", result |-> "AlreadyPaidForAccess"]
     => UNCHANGED chainVars
  /\ \A e \in EpisodeIds, u \in Users :
       /\ readAccess[e][u] => readAccess'[e][u]
       /\ (~readAccess[e][u] /\ readAccess'[e][u])
          => /\ last' = [op |-> "readComic", result |-> "ok"]
             /\ episodes'[e].totalReads = episodes[e].totalReads + 1
             /\ episodeReads'[e] = episodeReads[e] + 1

C10_PaidReadOnceThenAlreadyPaid ==
  [](C10_ReadState) /\ [][C10_ReadStep]_vars

\* a reader who had paid has just been refused, and the episode still shows
\* the one read
C10_Witness ==
  /\ \E e \in EpisodeIds :
       /\ IsPaidRead(e)
       /\ Cardinality({u \in Users : readAccess[e][u]}) = 1
       /\ episodes[e].totalReads = 1
  /\ last = [op |-> "readComic", result |-> "AlreadyPaidForAccess"]

WithdrewOk == [op |-> "withdrawEarnings", result |-> "ok"]

\* C11: a creator's creatorEarnings goes down by X exactly when the engine
\* pays X USDT to that creator: a withdrawEarnings whose transfer goes
\* through lowers the balance by the amount withdrawn and moves that amount
\* from the engine to the creator, nothing else lowers the balance or pays a
\* user, and a withdrawEarnings whose transfer fails reverts and leaves the
\* balance, lastWithdrawal and everything else as before the call.
C11_WithdrawState ==
  \A a \in Users, amount \in WithdrawAmounts, tokenOk \in BOOLEAN :
    (~paused /\ creatorEarnings[a].creatorEarnings > 0
      /\ WithdrawAmount(a, amount) <= creatorEarnings[a].creatorEarnings)
    => WithdrawEarningsResult(a, amount, tokenOk) =
         IF TransferSucceeds(ComicPad, WithdrawAmount(a, amount), tokenOk)
         THEN "ok" ELSE "USDTTransferFailed"

C11_WithdrawStep ==
  /\ last' = [op |-> "withdrawEarnings", result |-> "USDTTransferFailed"]
     => UNCHANGED chainVars
  /\ last' = WithdrewOk
     => \E a \in Users :
          creatorEarnings'[a].creatorEarnings
            < creatorEarnings[a].creatorEarnings
  /\ \A a \in Users :
       LET X == creatorEarnings[a].creatorEarnings
                  - creatorEarnings'[a].creatorEarnings
       IN
       /\ X > 0 => /\ last' = WithdrewOk
                   /\ usdt'[a] = usdt[a] + X
                   /\ usdt'[ComicPad] = usdt[ComicPad] - X
                   /\ \A b \in Accounts \ {a, ComicPad} : usdt'[b] = usdt[b]
                   /\ creatorEarnings'[a].totalEarnings
                        = creatorEarnings[a].totalEarnings
       /\ usdt'[a] > usdt[a] => (X = usdt'[a] - usdt[a] /\ last' = WithdrewOk)

C11_WithdrawalPaysExactly ==
  [](C11_WithdrawState) /\ [][C11_WithdrawStep]_vars

\* a creator who has withdrawn part of the balance before has just had a
\* withdrawal fail on the transfer
C11_Witness ==
  /\ last = [op |-> "withdrawEarnings", result |-> "USDTTransferFailed"]
  /\ \E a \in Users :
       /\ creatorEarnings[a].lastWithdrawal > 0
       /\ creatorEarnings[a].creatorEarnings > 0
       /\ usdt[ComicPad] >= creatorEarnings[a].creatorEarnings

\* C12: withdrawEarnings fails with NoEarningsToWithdraw whenever the
\* caller's creatorEarnings is 0 and with InsufficientEarnings whenever the
\* amount asked for exceeds the balance; with amount 0 (none given) a
\* successful call pays out the whole balance and leaves creatorEarnings at
\* 0; a failing call changes no state and pays nothing.
C12_WithdrawErrorsState ==
  \A a \in Users, amount \in WithdrawAmounts, tokenOk \in BOOLEAN :
    ~paused
    => /\ creatorEarnings[a].creatorEarnings = 0
          => WithdrawEarningsResult(a, amount, tokenOk)
               = "NoEarningsToWithdraw"
       /\ (creatorEarnings[a].creatorEarnings > 0
            /\ amount > creatorEarnings[a].creatorEarnings)
          => WithdrawEarningsResult(a, amount, tokenOk)
               = "InsufficientEarnings"

C12_WithdrawErrorsStep ==
  /\ (last'.op = "withdrawEarnings" /\ last'.result # "ok")
     => UNCHANGED chainVars
  /\ \A a \in Users, tokenOk \in BOOLEAN, t \in Timestamps :
       (WithdrawEarnings(a, 0, tokenOk, t) /\ last'.result = "ok")
       => /\ creatorEarnings[a].creatorEarnings > 0
          /\ creatorEarnings'[a].creatorEarnings = 0
          /\ usdt'[a] = usdt[a] + creatorEarnings[a].creatorEarnings

C12_WithdrawErrors ==
  [](C12_WithdrawErrorsState) /\ [][C12_WithdrawErrorsStep]_vars

\* a creator who earned and withdrew everything has just been refused a
\* further withdrawal
C12_Witness ==
  /\ ~paused
  /\ last = [op |-> "withdrawEarnings", result |-> "NoEarningsToWithdraw"]
  /\ \E a \in Users :
       /\ creatorEarnings[a].totalEarnings > 0
       /\ creatorEarnings[a].creatorEarnings = 0
       /\ creatorEarnings[a].lastWithdrawal > 0

\* C13: the ids of the tokens are global and sequential: the engine's every
\* successful mint, whatever episode it is for, returns the id that follows
\* the id returned by the successful mint before it, that id was never given
\* before, and nothing else moves the counter or touches the tokens.
C13_TokenLedger ==
  /\ DOMAIN tokenOwner = 1..(tokenIdCounter - 1)
  /\ DOMAIN tokenToEpisode = DOMAIN tokenOwner

C13_TokenStep ==
  /\ last' = MintedOk
     => /\ MintedTokenId \notin DOMAIN tokenOwner
        /\ DOMAIN tokenOwner' = DOMAIN tokenOwner \cup {MintedTokenId}
        /\ tokenIdCounter' = MintedTokenId + 1
        /\ \A id \in DOMAIN tokenOwner :
             /\ tokenOwner'[id] = tokenOwner[id]
             /\ tokenToEpisode'[id] = tokenToEpisode[id]
  /\ last' # MintedOk
     => UNCHANGED <<tokenIdCounter, tokenOwner, tokenToEpisode>>

C13_TokenIdsSequential == [](C13_TokenLedger) /\ [][C13_TokenStep]_vars

\* three tokens sold, ids 1 and 3 from the first episode and id 2 from the
\* second
C13_Witness ==
  /\ tokenIdCounter = 4
  /\ tokenToEpisode = <<1, 2, 1>>
  /\ last = MintedOk

\* C14 as claimed: when ComicNFT.mint fails after the transferFrom of the
\* mint price went through, the call ends with the payment taken and no
\* token issued.
C14_PaymentKeptWhenMinterFails ==
  [][\A e \in EpisodeIds, u \in Users :
       (MintComicNFT(e, u, TRUE, FALSE)
         /\ MintChecksResult(e) = "ok"
         /\ TransferSucceeds(u, episodes[e].mintPrice, TRUE))
       => /\ usdt'[ComicPad] = usdt[ComicPad] + episodes[e].mintPrice
          /\ usdt'[u] = usdt[u] - episodes[e].mintPrice
          /\ tokenOwner' = tokenOwner]_vars

\* C14 as amended: when ComicNFT.mint fails after the transferFrom went
\* through, mintComicNFT reverts with ComicNFT's error and the payment is
\* undone with every other write: nothing changes, and the engine never
\* holds a mint price without the token being issued.
C14_MinterFailureState ==
  \A e \in EpisodeIds, u \in Users :
    (MintChecksResult(e) = "ok"
      /\ TransferSucceeds(u, episodes[e].mintPrice, TRUE))
    => MintComicNFTResult(e, u, TRUE, FALSE) = "ERC721InvalidReceiver"

C14_MinterFailureStep ==
  /\ (last'.op = "mintComicNFT" /\ last'.result # "ok")
     => UNCHANGED chainVars
  /\ (last'.op = "mintComicNFT" /\ usdt' # usdt)
     => /\ tokenIdCounter' = tokenIdCounter + 1
        /\ tokenOwner'[MintedTokenId] \in Users
        /\ usdt'[tokenOwner'[MintedTokenId]] < usdt[tokenOwner'[MintedTokenId]]

C14_MinterFailureReverts ==
  [](C14_MinterFailureState) /\ [][C14_MinterFailureStep]_vars

\* a buyer holding the price has just had a mint refused by the token
\* contract
C14_Witness ==
  /\ last = [op |-> "mintComicNFT", result |-> "ERC721InvalidReceiver"]
  /\ \E e \in EpisodeIds :
       /\ MintChecksResult(e) = "ok"
       /\ \E u \in Users : usdt[u] >= episodes[e].mintPrice

\* C15: mintComicNFT fails with EpisodeNotLive if the episode is not live,
\* else with PublicMintingNotAllowed if allowPublicMinting is false, else
\* with EpisodeSupplyExceeded if currentSupply >= maxSupply, else with
\* MintPriceNotSet if mintPrice is 0; in each case nothing changes: no USDT
\* moves and no token is issued.
C15_MintErrorsState ==
  \A e \in EpisodeIds, u \in Users, tokenOk \in BOOLEAN,
     receiverOk \in BOOLEAN :
    ~paused
    => MintComicNFTResult(e, u, tokenOk, receiverOk) =
         IF ~episodes[e].isLive THEN "EpisodeNotLive"
         ELSE IF ~mintingRules[e].allowPublicMinting
           THEN "PublicMintingNotAllowed"
         ELSE IF episodes[e].currentSupply >= episodes[e].maxSupply
           THEN "EpisodeSupplyExceeded"
         ELSE IF episodes[e].mintPrice = 0 THEN "MintPriceNotSet"
         ELSE IF ~TransferSucceeds(u, episodes[e].mintPrice, tokenOk)
           THEN "USDTTransferFailed"
         ELSE NftMintResult(u, e, receiverOk)

C15_MintErrorsStep ==
  (last'.op = "mintComicNFT"
    /\ last'.result \in {"EpisodeNotLive", "PublicMintingNotAllowed",
                         "EpisodeSupplyExceeded", "MintPriceNotSet"})
  => UNCHANGED chainVars

C15_MintErrors == [](C15_MintErrorsState) /\ [][C15_MintErrorsStep]_vars

\* a live episode that still has copies and whose rules do not allow public
\* minting has just refused a mint
C15_Witness ==
  /\ last = [op |-> "mintComicNFT", result |-> "PublicMintingNotAllowed"]
  /\ \E e \in EpisodeIds :
       /\ episodes[e].isLive
       /\ ~mintingRules[e].allowPublicMinting
       /\ episodes[e].currentSupply < episodes[e].maxSupply

\* C16: for every (episode, reader) pair readComic moves the episode's
\* readPrice from the reader to the engine at most once: a readComic takes
\* USDT from a reader only when the pair has no readAccess yet, takes exactly
\* readPrice, and sets readAccess for the pair; and readAccess once set is
\* set in every later state.
C16_ReadChargeStep ==
  /\ \A u \in Users :
       (last'.op = "readComic" /\ usdt'[u] # usdt[u])
       => \E e \in EpisodeIds :
            /\ ~readAccess[e][u]
            /\ readAccess'[e][u]
            /\ usdt'[u] = usdt[u] - episodes[e].readPrice
            /\ usdt'[ComicPad] = usdt[ComicPad] + episodes[e].readPrice
            /\ \A e2 \in EpisodeIds, u2 \in Users :
                 (e2 # e \/ u2 # u) => readAccess'[e2][u2] = readAccess[e2][u2]
  /\ \A e \in EpisodeIds, u \in Users :
       /\ readAccess[e][u] => readAccess'[e][u]
       /\ (~readAccess[e][u] /\ readAccess'[e][u])
          => /\ last' = [op |-> "readComic", result |-> "ok"]
             /\ usdt'[u] = usdt[u] - episodes[e].readPrice

C16_ChargedAtMostOnce == [][C16_ReadChargeStep]_vars

\* both readers have paid for the episode, and reads went on afterwards
C16_Witness ==
  \E e \in EpisodeIds :
    /\ \A u \in Users : readAccess[e][u]
    /\ \A u \in Users : usdt[u] <= InitialFunds[u] - episodes[e].readPrice
    /\ last = [op |-> "readComic", result |-> "AlreadyPaidForAccess"]

\* C17: hasReadAccess(episodeId, user) returns true for every user when the
\* episode is not pay-per-read, and otherwise returns true exactly when
\* readAccess holds for (episodeId, user); a call changes no state.
C17_HasReadAccessState ==
  \A e \in EpisodeIds, u \in Users :
    /\ ~episodes[e].isPayPerRead => HasReadAccess(e, u) = TRUE
    /\ episodes[e].isPayPerRead => HasReadAccess(e, u) = readAccess[e][u]

C17_HasReadAccessStep ==
  last'.op = "hasReadAccess"
  => /\ UNCHANGED chainVars
     /\ \E e \in EpisodeIds, u \in Users :
          last'.value = IF episodes[e].isPayPerRead THEN readAccess[e][u]
                        ELSE TRUE

C17_HasReadAccess ==
  [](C17_HasReadAccessState) /\ [][C17_HasReadAccessStep]_vars

\* on a pay-per-read episode that one reader has paid for, hasReadAccess has
\* just answered false for the other
C17_Witness ==
  /\ last = [op |-> "hasReadAccess", result |-> "ok", value |-> FALSE]
  /\ \E e \in EpisodeIds :
       /\ episodes[e].isPayPerRead
       /\ \E u \in Users : readAccess[e][u]
       /\ \E u \in Users : ~readAccess[e][u]

\* C18: withdrawPlatformFees(amount) succeeds only for the owner and only
\* with amount <= platformTotalFees; a successful call lowers
\* platformTotalFees by exactly amount and transfers amount from the engine
\* to the treasury; with amount > platformTotalFees the owner's call fails
\* with InsufficientPlatformFees; and every failing call, a failed transfer
\* included, leaves platformTotalFees and everything else unchanged.
C18_PlatformWithdrawState ==
  \A caller \in Callers, amount \in PlatformWithdrawAmounts,
     tokenOk \in BOOLEAN :
    WithdrawPlatformFeesResult(caller, amount, tokenOk) =
      IF caller # Owner THEN "OwnableUnauthorizedAccount"
      ELSE IF amount > platformTotalFees THEN "InsufficientPlatformFees"
      ELSE IF ~TransferSucceeds(ComicPad, amount, tokenOk)
        THEN "USDTTransferFailed"
      ELSE "ok"

C18_PlatformWithdrawStep ==
  /\ (last'.op = "withdrawPlatformFees" /\ last'.result # "ok")
     => UNCHANGED chainVars
  /\ \A caller \in Callers, amount \in PlatformWithdrawAmounts,
        tokenOk \in BOOLEAN :
       (WithdrawPlatformFees(caller, amount, tokenOk) /\ last'.result = "ok")
       => /\ caller = Owner
          /\ amount <= platformTotalFees
          /\ platformTotalFees' = platformTotalFees - amount
          /\ usdt'[Treasury] = usdt[Treasury] + amount
          /\ usdt'[ComicPad] = usdt[ComicPad] - amount
          /\ \A a \in Users \cup {Owner} : usdt'[a] = usdt[a]
  /\ platformTotalFees' < platformTotalFees
     => last' = [op |-> "withdrawPlatformFees", result |-> "ok"]

C18_PlatformWithdraw ==
  [](C18_PlatformWithdrawState) /\ [][C18_PlatformWithdrawStep]_vars

\* fees were paid out to the treasury, more have accrued since, and a
\* withdrawal of them has just failed on the transfer
C18_Witness ==
  /\ usdt[Treasury] > 0
  /\ platformTotalFees > 0
  /\ last = [op |-> "withdrawPlatformFees", result |-> "USDTTransferFailed"]

\* C19: goLive fails with EpisodeDoesNotExist for an unknown episode, else
\* with NotEpisodeCreator for a caller who is not the episode's creator,
\* else with EpisodeAlreadyLive if the episode is live, else with
\* MintPriceNotSet if mintPrice is 0, and changes nothing in these cases;
\* otherwise it succeeds, sets isLive and sets ComicNFT's episodeIsLive for
\* the episode, and changes nothing else.
C19_GoLiveState ==
  \A e \in EpisodeIds, caller \in Users :
    ~paused
    => GoLiveResult(e, caller) =
         IF ~Exists(e) THEN "EpisodeDoesNotExist"
         ELSE IF caller # episodes[e].creator THEN "NotEpisodeCreator"
         ELSE IF episodes[e].isLive THEN "EpisodeAlreadyLive"
         ELSE IF episodes[e].mintPrice = 0 THEN "MintPriceNotSet"
         ELSE "ok"

C19_GoLiveStep ==
  /\ (last'.op = "goLive" /\ last'.result # "ok") => UNCHANGED chainVars
  /\ \A e \in EpisodeIds, caller \in Users :
       (GoLive(e, caller) /\ last'.result = "ok")
       => /\ ~episodes[e].isLive
          /\ episodes' = [episodes EXCEPT ![e].isLive = TRUE]
          /\ episodeIsLive' = [episodeIsLive EXCEPT ![e] = TRUE]
          /\ UNCHANGED <<paused, projectIdCounter, episodeIdCounter,
                         projects, mintingRules, creatorEarnings,
                         projectEarnings, episodeEarnings, readAccess,
                         episodeReads, platformTotalFees,
                         platformFeePercentage, tokenIdCounter, tokenOwner,
                         tokenToEpisode, episodeSupply, episodeMaxSupply,
                         episodeMintPrice, usdt>>

C19_GoLiveErrors == [](C19_GoLiveState) /\ [][C19_GoLiveStep]_vars

\* the creator has just been refused goLive on an episode whose rules set
\* the mint price to 0
C19_Witness ==
  /\ last = [op |-> "goLive", result |-> "MintPriceNotSet"]
  /\ \E e \in EpisodeIds :
       /\ Exists(e)
       /\ ~episodes[e].isLive
       /\ episodes[e].mintPrice = 0
       /\ mintingRules[e].episodeId = e

\* C20: getMintingRules(episodeId) fails with EpisodeDoesNotExist when
\* episodeId is not the id of an existing episode.
C20_NotFoundForUnknownEpisode ==
  \A e \in EpisodeIds :
    ~Exists(e) => GetMintingRulesResult(e) = "EpisodeDoesNotExist"

\* the tokens of episode e that buyer u minted (the model has no transfer of
\* tokens: a token's owner is its minter)
MintedBy(e, u) ==
  {id \in DOMAIN tokenOwner : tokenOwner[id] = u /\ tokenToEpisode[id] = e}

\* C21: for every (episode, buyer) pair at most one mintComicNFT ever
\* succeeds.
C21_AtMostOneMintPerBuyer ==
  \A e \in EpisodeIds, u \in Users : Cardinality(MintedBy(e, u)) <= 1

ReadOk == [op |-> "readComic", result |-> "ok"]

\* the sum of f over the keys in S
RECURSIVE SumOf(_, _)
SumOf(f, S) ==
  IF S = {} THEN 0
  ELSE LET x == CHOOSE y \in S : TRUE IN f[x] + SumOf(f, S \ {x})

\* C22: a successful mint or paid read adds the gross amount to totalEarnings
\* of the creator's, the project's and the episode's EarningsData, adds the
\* same creatorAmount to creatorEarnings of the three, and adds
\* platformAmount to platformTotalFees, all in one transaction; nothing else
\* credits any of them, so no state shows part of the update: the project's
\* and the creator's totals are the totals of their episodes.
C22_AggregatesAgree ==
  /\ \A p \in ProjectIds :
       LET own == {e \in EpisodeIds : episodes[e].projectId = p} IN
       /\ projectEarnings[p].totalEarnings
            = SumOf([e \in EpisodeIds |-> episodeEarnings[e].totalEarnings],
                    own)
       /\ projectEarnings[p].creatorEarnings
            = SumOf([e \in EpisodeIds |-> episodeEarnings[e].creatorEarnings],
                    own)
  /\ \A a \in Users :
       creatorEarnings[a].totalEarnings
         = SumOf([e \in EpisodeIds |-> episodeEarnings[e].totalEarnings],
                 {e \in EpisodeIds : episodes[e].creator = a})

C22_FourWayStep ==
  /\ \A e \in EpisodeIds :
       LET gross == episodeEarnings'[e].totalEarnings
                      - episodeEarnings[e].totalEarnings
           minted == last' = MintedOk
           creatorAmount == IF minted THEN MintCreatorAmount(e)
                            ELSE ReadCreatorAmount(e)
           platformAmount == IF minted THEN MintPlatformAmount(e)
                             ELSE ReadPlatformAmount(e)
           c == episodes[e].creator
           p == episodes[e].projectId
       IN
       episodeEarnings'[e] # episodeEarnings[e]
       => /\ last' \in {MintedOk, ReadOk}
          /\ gross = IF minted THEN episodes[e].mintPrice
                     ELSE episodes[e].readPrice
          /\ episodeEarnings'[e].creatorEarnings
               = episodeEarnings[e].creatorEarnings + creatorAmount
          /\ creatorEarnings'[c].totalEarnings
               = creatorEarnings[c].totalEarnings + gross
          /\ creatorEarnings'[c].creatorEarnings
               = creatorEarnings[c].creatorEarnings + creatorAmount
          /\ projectEarnings'[p].totalEarnings
               = projectEarnings[p].totalEarnings + gross
          /\ projectEarnings'[p].creatorEarnings
               = projectEarnings[p].creatorEarnings + creatorAmount
          /\ platformTotalFees' = platformTotalFees + platformAmount
  /\ last' = MintedOk
     => \E e \in EpisodeIds :
          episodeEarnings'[e].totalEarnings
            = episodeEarnings[e].totalEarnings + episodes[e].mintPrice
  /\ (last' = ReadOk /\ usdt' # usdt)
     => \E e \in EpisodeIds :
          episodeEarnings'[e].totalEarnings
            = episodeEarnings[e].totalEarnings + episodes[e].readPrice
  /\ (\A e \in EpisodeIds : episodeEarnings'[e] = episodeEarnings[e])
     => /\ projectEarnings' = projectEarnings
        /\ platformTotalFees' <= platformTotalFees
        /\ \A a \in Users :
             /\ creatorEarnings'[a].totalEarnings
                  = creatorEarnings[a].totalEarnings
             /\ creatorEarnings'[a].creatorEarnings
                  <= creatorEarnings[a].creatorEarnings

C22_FourWayUpdateAtomic ==
  [](C22_AggregatesAgree) /\ [][C22_FourWayStep]_vars

\* an episode has earned from a mint and then from a paid read
C22_Witness ==
  /\ last = ReadOk
  /\ \E e \in EpisodeIds :
       /\ episodes[e].currentSupply > 0
       /\ \E u \in Users : readAccess[e][u]
       /\ episodeEarnings[e].totalEarnings
            >= episodes[e].mintPrice + episodes[e].readPrice
       /\ platformTotalFees > 0

\* C23: on a live pay-per-read episode with readPrice > 0, a readComic whose
\* transferFrom fails reverts with USDTTransferFailed and changes nothing: no
\* readAccess, no earnings, no platform fees, neither read counter.
C23_ReadSettlementState ==
  \A e \in EpisodeIds, u \in Users, tokenOk \in BOOLEAN :
    (~paused /\ episodes[e].isLive /\ IsPaidRead(e) /\ ~readAccess[e][u]
      /\ ~TransferSucceeds(u, episodes[e].readPrice, tokenOk))
    => ReadComicResult(e, u, tokenOk) = "USDTTransferFailed"

C23_ReadSettlementStep ==
  /\ last' = [op |-> "readComic", result |-> "USDTTransferFailed"]
     => UNCHANGED chainVars
  /\ \A e \in EpisodeIds, u \in Users :
       (~readAccess[e][u] /\ readAccess'[e][u])
       => usdt'[ComicPad] = usdt[ComicPad] + episodes[e].readPrice

C23_ReadRollsBackOnSettlementFailure ==
  [](C23_ReadSettlementState) /\ [][C23_ReadSettlementStep]_vars

\* a reader without access has just had a paid read fail on the transfer
C23_Witness ==
  /\ last = [op |-> "readComic", result |-> "USDTTransferFailed"]
  /\ ~paused
  /\ \E e \in EpisodeIds :
       /\ episodes[e].isLive
       /\ IsPaidRead(e)
       /\ \E u \in Users : ~readAccess[e][u]

\* C24: readComic on a live episode that is not pay-per-read always succeeds,
\* whatever the token would answer, moves no USDT, and changes nothing but
\* episode.totalReads and episodeReads[episodeId], each up by exactly 1.
C24_FreeReadState ==
  \A e \in EpisodeIds, u \in Users, tokenOk \in BOOLEAN :
    (~paused /\ episodes[e].isLive /\ ~episodes[e].isPayPerRead)
    => ReadComicResult(e, u, tokenOk) = "ok"

C24_FreeReadStep ==
  \A e \in EpisodeIds, u \in Users, tokenOk \in BOOLEAN :
    (ReadComic(e, u, tokenOk) /\ ~paused /\ episodes[e].isLive
      /\ ~episodes[e].isPayPerRead)
    => /\ last' = ReadOk
       /\ episodes' = [episodes EXCEPT ![e].totalReads = @ + 1]
       /\ episodeReads' = [episodeReads EXCEPT ![e] = @ + 1]
       /\ UNCHANGED <<paused, projectIdCounter, episodeIdCounter, projects,
                      mintingRules, creatorEarnings, projectEarnings,
                      episodeEarnings, readAccess, platformTotalFees,
                      platformFeePercentage, nftVars, usdt>>

C24_FreeReadOnlyCounts ==
  [](C24_FreeReadState) /\ [][C24_FreeReadStep]_vars

\* an episode that is not pay-per-read, though its rules name a read price,
\* has just been read
C24_Witness ==
  /\ last = ReadOk
  /\ \E e \in EpisodeIds :
       /\ episodes[e].isLive
       /\ ~episodes[e].isPayPerRead
       /\ episodes[e].readPrice > 0
       /\ episodes[e].totalReads = 1
       /\ episodeReads[e] = 1

\* C25: setMintingRules called by the episode's creator with
\* creatorRewardPercentage + platformFeePercentage > 10000 fails with
\* InvalidPercentages and leaves the rules and the episode unchanged, so in
\* every reachable state every stored MintingRules record has
\* creatorRewardPercentage + platformFeePercentage <= 10000.
C25_PercentagesState ==
  /\ \A e \in EpisodeIds :
       mintingRules[e].creatorRewardPercentage
         + mintingRules[e].platformFeePercentage <= BASIS_POINTS
  /\ \A e \in EpisodeIds, r \in RuleChoices :
       (~paused /\ Exists(e)
         /\ r.creatorRewardPercentage + r.platformFeePercentage
              > BASIS_POINTS)
       => SetMintingRulesResult(e, episodes[e].creator, r)
            = "InvalidPercentages"

C25_PercentagesStep ==
  last' = [op |-> "setMintingRules", result |-> "InvalidPercentages"]
  => UNCHANGED chainVars

C25_InvalidPercentagesRefused ==
  [](C25_PercentagesState) /\ [][C25_PercentagesStep]_vars

\* an episode with rules stored has just refused rules whose percentages
\* exceed 100%
C25_Witness ==
  /\ last = [op |-> "setMintingRules", result |-> "InvalidPercentages"]
  /\ \E e \in EpisodeIds :
       /\ mintingRules[e].episodeId = e
       /\ mintingRules[e].creatorRewardPercentage
            + mintingRules[e].platformFeePercentage > 0

CreatedEpisodeOk == [op |-> "createComicEpisode", result |-> "ok"]

\* C26: every successful createComicEpisode takes the next id of the one
\* counter shared by all projects, an id no episode has, stores the episode
\* with currentSupply 0 and isLive false, and adds exactly 1 to
\* totalEpisodes of its project, so a project's totalEpisodes is the number
\* of episodes created under it; a failed createComicEpisode takes no id and
\* changes nothing.
C26_EpisodeCatalog ==
  /\ \A e \in DOMAIN episodes : Exists(e) <=> e < episodeIdCounter
  /\ \A p \in DOMAIN projects :
       projects[p].totalEpisodes
         = Cardinality({e \in DOMAIN episodes :
                          Exists(e) /\ episodes[e].projectId = p})

C26_EpisodeStep ==
  /\ last' = CreatedEpisodeOk
     => LET id == episodeIdCounter
            p == episodes'[id].projectId
        IN
        /\ ~Exists(id)
        /\ episodeIdCounter' = id + 1
        /\ episodes'[id].creator # NoAddress
        /\ episodes'[id].currentSupply = 0
        /\ ~episodes'[id].isLive
        /\ \A e \in DOMAIN episodes \ {id} : episodes'[e] = episodes[e]
        /\ p \in DOMAIN projects
        /\ projects'[p].totalEpisodes = projects[p].totalEpisodes + 1
        /\ \A q \in DOMAIN projects \ {p} : projects'[q] = projects[q]
  /\ (last'.op = "createComicEpisode" /\ last'.result # "ok")
     => UNCHANGED chainVars
  /\ last' # CreatedEpisodeOk
     => /\ episodeIdCounter' = episodeIdCounter
        /\ \A p \in DOMAIN projects :
             projects'[p].totalEpisodes = projects[p].totalEpisodes

C26_EpisodeIdsGlobal == [](C26_EpisodeCatalog) /\ [][C26_EpisodeStep]_vars

\* two projects with one episode each, ids 1 and 2, and a further
\* createComicEpisode that failed
C26_Witness ==
  /\ episodeIdCounter = 3
  /\ episodes[1].projectId # episodes[2].projectId
  /\ last.op = "createComicEpisode"
  /\ last.result # "ok"

\* what the engine owes: every creator's withdrawable creatorEarnings and
\* the platform-fee accumulator
Owed ==
  SumOf([a \in DOMAIN creatorEarnings |-> creatorEarnings[a].creatorEarnings],
        DOMAIN creatorEarnings)
    + platformTotalFees

\* C27: the engine's USDT balance is at least the sum of all creators'
\* creatorEarnings plus platformTotalFees, so a withdrawal that passes its
\* balance check (a creator's amount within creatorEarnings, the owner's
\* amount within platformTotalFees) is covered by the balance and succeeds
\* when the token transfers.
C27_Solvent ==
  /\ usdt[ComicPad] >= Owed
  /\ \A a \in Users, amount \in WithdrawAmounts :
       ( /\ ~paused
         /\ creatorEarnings[a].creatorEarnings > 0
         /\ WithdrawAmount(a, amount) <= creatorEarnings[a].creatorEarnings )
       => /\ usdt[ComicPad] >= WithdrawAmount(a, amount)
          /\ WithdrawEarningsResult(a, amount, TRUE) = "ok"
  /\ \A amount \in PlatformWithdrawAmounts :
       amount <= platformTotalFees
       => /\ usdt[ComicPad] >= amount
          /\ WithdrawPlatformFeesResult(Owner, amount, TRUE) = "ok"

\* a creator has just withdrawn part of the earnings, and the engine still
\* owes the creator and the platform
C27_Witness ==
  /\ last = WithdrewOk
  /\ \E a \in Users : creatorEarnings[a].creatorEarnings > 0
  /\ platformTotalFees > 0
  /\ usdt[ComicPad] >= Owed

\* ComicNFT's ledger of an episode equals the engine's episode record
C28_LedgerInStep ==
  \A e \in DOMAIN episodes :
    /\ episodeSupply[e] = episodes[e].currentSupply
    /\ episodeMaxSupply[e] = episodes[e].maxSupply
    /\ episodeMintPrice[e] = episodes[e].mintPrice
    /\ episodeIsLive[e] = episodes[e].isLive

\* C28 as stated: the ledgers agree, so ComicNFT.mint rejects no mint that
\* passed the engine's checks. (Violated: _safeMint inside ComicNFT.mint
\* refuses a receiver that does not accept ERC-721 tokens.)
C28_MintNeverRejected ==
  /\ C28_LedgerInStep
  /\ \A e \in DOMAIN episodes, u \in Users, receiverOk \in BOOLEAN :
       MintChecksResult(e) = "ok" => NftMintResult(u, e, receiverOk) = "ok"

\* C28: in every state ComicNFT's episodeSupply, episodeMaxSupply,
\* episodeMintPrice and episodeIsLive equal the engine's currentSupply,
\* maxSupply, mintPrice and isLive of the episode, so the live and supply
\* checks of ComicNFT.mint never reject a mint that passed the engine's
\* checks; ComicNFT.mint rejects such a mint only when the receiver does not
\* accept the token.
C28_LedgerMirrorsEngine ==
  /\ C28_LedgerInStep
  /\ \A e \in DOMAIN episodes, u \in Users, receiverOk \in BOOLEAN :
       MintChecksResult(e) = "ok"
       => NftMintResult(u, e, receiverOk)
            = IF receiverOk THEN "ok" ELSE "ERC721InvalidReceiver"

\* a live episode configured by setMintingRules, one copy minted, another
\* mint passing the engine's checks
C28_Witness ==
  \E e \in DOMAIN episodes :
    /\ episodes[e].isLive
    /\ mintingRules[e].episodeId = e
    /\ episodes[e].currentSupply > 0
    /\ episodeSupply[e] = episodes[e].currentSupply
    /\ MintChecksResult(e) = "ok"

\* C29: once readComic(E) by U has succeeded, hasReadAccess(E, U) is true,
\* whatever the episode's configuration (pay-per-read with readPrice 0
\* included). (Violated: with isPayPerRead true and readPrice 0 the read
\* succeeds through the free branch, which records no access, and
\* hasReadAccess answers from the empty record.)
C29_AccessAfterRead ==
  [][\A e \in DOMAIN episodes, u \in Users, tokenOk \in BOOLEAN :
       (ReadComic(e, u, tokenOk) /\ last'.result = "ok")
       => HasReadAccess(e, u)']_vars

\* C30: in the backend ComicService a comic's currentSupply never exceeds
\* its maxSupply, however concurrent batchMintComic calls on the comic
\* interleave. (Violated: two calls both pass the supply check before either
\* resumes from the await, then both add their quantity.)
C30_SupplyWithinMax ==
  \A c \in ComicIds : comics[c].currentSupply <= comics[c].maxSupply

====
